---- MODULE Spec2Model ----
(***************************************************************************)
(* Model of the idle-clicker simulation core of src/src/App.tsx: the       *)
(* encounter factory, the reward rule, tick, simulateOffline, the manual   *)
(* attack and the two purchase operations, run against the React state    *)
(* `save`.                                                                 *)
(*                                                                         *)
(* Numbers.  JavaScript numbers are modelled as fixed-point integers:      *)
(*   hit points   in units of 1/HpScale   HP                               *)
(*   time         in units of 1/TimeScale seconds                          *)
(*   gold         in units of 1/GoldScale gold                             *)
(* HpScale = TimeScale, so that dps * dt (dps an integer number of HP per  *)
(* second) is a number of hit-point units without any division.  Every     *)
(* quotient is the floor of the exact quotient; the inputs of the model    *)
(* are chosen so that the quotients that decide a claim are exact.         *)
(*                                                                         *)
(* Objects.  An Enemy is a JavaScript object: `save.enemy` holds a         *)
(* reference into `heap`, `{ ...state }` copies the reference and          *)
(* `s.enemy.hp = ...` writes through it.                                   *)
(***************************************************************************)
EXTENDS Integers, Sequences, FiniteSets, TLC

VARIABLES save, heap, rendered, last, eq, fn

vars == <<save, heap, rendered, last, eq, fn>>

----------------------------------------------------------------------------
(* Bounds of the model *)

NumHeroes == 3          \* heroes 1..NumHeroes of the HEROES table are owned
MaxSteps == 3           \* operations run after a page load
MaxPending == 2         \* updates dispatched between two renders
NumRefs == 3            \* addresses of Enemy objects

HpScale == 10^4
TimeScale == 10^4
GoldScale == 10^5

Max(a, b) == IF a >= b THEN a ELSE b
Min(a, b) == IF a <= b THEN a ELSE b

\* floor(x * num / den), computed without forming x * num
MulDiv(x, num, den) == (x \div den) * num + ((x % den) * num) \div den

\* x * (num/den)^n, one factor at a time (Math.pow applied to a scaled number)
RECURSIVE MulPow(_, _, _, _)
MulPow(x, num, den, n) ==
  IF n = 0 THEN x
  ELSE IF n > 0 THEN MulPow(MulDiv(x, num, den), num, den, n - 1)
  ELSE MulPow(MulDiv(x, den, num), num, den, n + 1)

----------------------------------------------------------------------------
(* Game constants *)

\* the nominal period of the interval that calls tick, in ms
TICK_MS == 50

CLICK == [baseDamage |-> 1, baseCost |-> 10,
          growth |-> [num |-> 115, den |-> 100],
          damageGrowth |-> [num |-> 125, den |-> 100]]

ENEMY == [baseHp |-> 10,
          floorGrowth |-> [num |-> 16, den |-> 10],
          bossMultiplier |-> 12,
          perKillGoldPct |-> [num |-> 5, den |-> 100],
          bossGoldMultiplier |-> 2,
          bossTimeSeconds |-> 30,
          killsPerFloor |-> 20]

OFFLINE == [maxSeconds |-> 12 * 60 * 60]

HEROES == <<
  [id |-> 1, baseDps |-> 1,   baseCost |-> 50,   growth |-> [num |-> 107, den |-> 100]],
  [id |-> 2, baseDps |-> 5,   baseCost |-> 250,  growth |-> [num |-> 108, den |-> 100]],
  [id |-> 3, baseDps |-> 25,  baseCost |-> 1000, growth |-> [num |-> 109, den |-> 100]],
  [id |-> 4, baseDps |-> 125, baseCost |-> 5000, growth |-> [num |-> 110, den |-> 100]],
  [id |-> 5, baseDps |-> 625, baseCost |-> 25000, growth |-> [num |-> 111, den |-> 100]],
  [id |-> 6, baseDps |-> 3125, baseCost |-> 125000, growth |-> [num |-> 112, den |-> 100]],
  [id |-> 7, baseDps |-> 15625, baseCost |-> 600000, growth |-> [num |-> 113, den |-> 100]],
  [id |-> 8, baseDps |-> 78125, baseCost |-> 3000000, growth |-> [num |-> 114, den |-> 100]],
  [id |-> 9, baseDps |-> 390625, baseCost |-> 15000000, growth |-> [num |-> 115, den |-> 100]],
  [id |-> 10, baseDps |-> 1953125, baseCost |-> 80000000, growth |-> [num |-> 116, den |-> 100]] >>

HeroIds == 1..NumHeroes

----------------------------------------------------------------------------
(* Types: Enemy objects and the heap *)

Null == 0
Undefined == -1
Refs == 1..NumRefs

Enemy(maxHp, hp, isBoss, bossTimeLeft) ==
  [maxHp |-> maxHp, hp |-> hp, isBoss |-> isBoss, bossTimeLeft |-> bossTimeLeft]

\* content of an address that holds no object
Free == Enemy(0, 0, FALSE, Undefined)

EmptyHeap == [r \in Refs |-> Free]

\* the address a `new` object gets: the lowest address that holds no object
Alloc(h) == CHOOSE r \in Refs : h[r] = Free /\ \A q \in Refs : q < r => h[q] # Free

\* `s.enemy = e` for a newly made object e: the object s.enemy referred to
\* stays on the heap while somebody else (pinned) still refers to it
AssignEnemy(s, h, pinned, e) ==
  LET h1 == IF s.enemy # Null /\ s.enemy \notin pinned
            THEN [h EXCEPT ![s.enemy] = Free] ELSE h
      r == Alloc(h1)
  IN [s |-> [s EXCEPT !.enemy = r], h |-> [h1 EXCEPT ![r] = e]]

\* the value of the object behind a reference (Free for null)
Deref(h, r) == IF r = Null THEN Free ELSE h[r]

\* Addresses are opaque: objects nobody refers to any more are collected and
\* the others are renamed, the object of s.enemy to address 1 and a different
\* object of view.enemy to the next address
Canon(s, view, h) ==
  LET a == IF s.enemy = Null THEN Null ELSE 1
      b == IF view.enemy = Null THEN Null
           ELSE IF view.enemy = s.enemy THEN a
           ELSE a + 1
  IN [s |-> [s EXCEPT !.enemy = a],
      view |-> [view EXCEPT !.enemy = b],
      h |-> [r \in Refs |-> IF r = a /\ a # Null THEN h[s.enemy]
                            ELSE IF r = b /\ b # Null THEN h[view.enemy]
                            ELSE Free]]

----------------------------------------------------------------------------
(* Pure helpers *)

\* variant of bulkCost that prices from level 0
bulkCost_FromLevelZero(base, growth, currentLevel, qty) ==
  IF qty <= 0 THEN 0
  ELSE LET a == base * GoldScale
       IN IF growth.num = growth.den THEN a * qty
          ELSE MulDiv(MulPow(a, growth.num, growth.den, qty) - a,
                      growth.den, growth.num - growth.den)

bulkCost(base, growth, currentLevel, qty) ==
  IF qty <= 0 THEN 0
  ELSE LET a == MulPow(base * GoldScale, growth.num, growth.den, currentLevel)
       IN IF growth.num = growth.den THEN a * qty
          ELSE MulDiv(MulPow(a, growth.num, growth.den, qty) - a,
                      growth.den, growth.num - growth.den)

clickDamage(clickLevel) ==
  MulPow(CLICK.baseDamage * HpScale, CLICK.damageGrowth.num, CLICK.damageGrowth.den,
         clickLevel - 1)

RECURSIVE SumDps(_, _)
SumDps(heroes, n) ==
  IF n = 0 THEN 0 ELSE SumDps(heroes, n - 1) + HEROES[n].baseDps * heroes[n]

totalDps(heroes) == SumDps(heroes, NumHeroes)

\* variant of makeEnemy that raises floorGrowth to the floor
makeEnemy_PowFloor(floor, boss) ==
  LET base == MulPow(ENEMY.baseHp * HpScale, ENEMY.floorGrowth.num,
                     ENEMY.floorGrowth.den, floor)
      maxHp == IF boss THEN base * ENEMY.bossMultiplier ELSE base
  IN Enemy(maxHp, maxHp, boss,
           IF boss THEN ENEMY.bossTimeSeconds * TimeScale ELSE Undefined)

makeEnemy(floor, boss) ==
  LET base == MulPow(ENEMY.baseHp * HpScale, ENEMY.floorGrowth.num,
                     ENEMY.floorGrowth.den, floor - 1)
      maxHp == IF boss THEN base * ENEMY.bossMultiplier ELSE base
  IN Enemy(maxHp, maxHp, boss,
           IF boss THEN ENEMY.bossTimeSeconds * TimeScale ELSE Undefined)

\* variant of goldRewardFor without the floor factor
goldRewardFor_NoFloorFactor(enemy, floor) ==
  LET pct == (enemy.maxHp * (GoldScale \div HpScale) * ENEMY.perKillGoldPct.num)
                \div ENEMY.perKillGoldPct.den
  IN IF enemy.isBoss THEN pct * ENEMY.bossGoldMultiplier ELSE pct

\* enemy.maxHp * perKillGoldPct * (1 + floor * 0.02), in gold units
goldRewardFor(enemy, floor) ==
  LET pct == (enemy.maxHp * (GoldScale \div HpScale) * ENEMY.perKillGoldPct.num)
                \div ENEMY.perKillGoldPct.den
      base == (pct * (100 + floor * 2)) \div 100
  IN IF enemy.isBoss THEN base * ENEMY.bossGoldMultiplier ELSE base

----------------------------------------------------------------------------
(* Combat simulator *)

\* variant of tickKill that pays the reward into gold but not into lifetimeGold
tickKill_GoldOnly(s, h, pinned) ==
  LET enemy == h[s.enemy]
      reward == goldRewardFor(enemy, s.floor)
      s1 == [s EXCEPT !.gold = @ + reward]
  IN IF enemy.isBoss
     THEN AssignEnemy([s1 EXCEPT !.floor = s1.floor + 1, !.killsThisFloor = 0],
                      h, pinned, makeEnemy(s1.floor + 1, FALSE))
     ELSE LET kills == s1.killsThisFloor + 1
          IN IF kills >= ENEMY.killsPerFloor
             THEN AssignEnemy([s1 EXCEPT !.killsThisFloor = ENEMY.killsPerFloor],
                              h, pinned, makeEnemy(s1.floor, TRUE))
             ELSE AssignEnemy([s1 EXCEPT !.killsThisFloor = kills],
                              h, pinned, makeEnemy(s1.floor, FALSE))

\* variant of tickKill that never stops counting and never installs a boss
tickKill_NoBoss(s, h, pinned) ==
  LET enemy == h[s.enemy]
      reward == goldRewardFor(enemy, s.floor)
      s1 == [s EXCEPT !.gold = @ + reward, !.lifetimeGold = @ + reward]
  IN IF enemy.isBoss
     THEN AssignEnemy([s1 EXCEPT !.floor = s1.floor + 1, !.killsThisFloor = 0],
                      h, pinned, makeEnemy(s1.floor + 1, FALSE))
     ELSE AssignEnemy([s1 EXCEPT !.killsThisFloor = s1.killsThisFloor + 1],
                      h, pinned, makeEnemy(s1.floor, FALSE))

\* the kill branch of tick: s.enemy.hp has reached 0
tickKill(s, h, pinned) ==
  LET enemy == h[s.enemy]
      reward == goldRewardFor(enemy, s.floor)
      s1 == [s EXCEPT !.gold = @ + reward, !.lifetimeGold = @ + reward]
  IN IF enemy.isBoss
     THEN AssignEnemy([s1 EXCEPT !.floor = s1.floor + 1, !.killsThisFloor = 0],
                      h, pinned, makeEnemy(s1.floor + 1, FALSE))
     ELSE LET kills == s1.killsThisFloor + 1
          IN IF kills >= ENEMY.killsPerFloor
             THEN AssignEnemy([s1 EXCEPT !.killsThisFloor = ENEMY.killsPerFloor],
                              h, pinned, makeEnemy(s1.floor, TRUE))
             ELSE AssignEnemy([s1 EXCEPT !.killsThisFloor = kills],
                              h, pinned, makeEnemy(s1.floor, FALSE))

\* variant of tickEscape that leaves the boss whose timer ran out in place
tickEscape_BossStays(s, h, pinned) == [s |-> s, h |-> h]

\* variant of tickEscape that keeps the kill counter
tickEscape_KeepKills(s, h, pinned) ==
  LET newFloor == Max(1, s.floor - 1)
  IN AssignEnemy([s EXCEPT !.floor = newFloor],
                 h, pinned, makeEnemy(newFloor, FALSE))

\* the boss-escape branch of tick
tickEscape(s, h, pinned) ==
  LET newFloor == Max(1, s.floor - 1)
  IN AssignEnemy([s EXCEPT !.floor = newFloor, !.killsThisFloor = 0],
                 h, pinned, makeEnemy(newFloor, FALSE))

\* variant of tick that takes at least the nominal period TICK_MS off the
\* boss timer
tick_NominalPeriod(state, h, dt, now, pinned) ==
  LET s == [state EXCEPT !.lastSeen = now]
  IN IF s.enemy = Null THEN [s |-> s, h |-> h]
     ELSE
       LET r == s.enemy
           dps == totalDps(s.heroes)
           h1 == IF dps > 0 /\ h[r].hp > 0
                 THEN [h EXCEPT ![r].hp = Max(0, h[r].hp - dps * dt)] ELSE h
           timed == h1[r].isBoss /\ h1[r].bossTimeLeft # Undefined
           h2 == IF timed
                 THEN [h1 EXCEPT ![r].bossTimeLeft =
                         Max(0, h1[r].bossTimeLeft - Max(dt, (TICK_MS * TimeScale) \div 1000))]
                 ELSE h1
       IN IF timed /\ h2[r].bossTimeLeft = 0 /\ h2[r].hp > 0
          THEN tickEscape(s, h2, pinned)
          ELSE IF h2[r].hp = 0 THEN tickKill(s, h2, pinned)
          ELSE [s |-> s, h |-> h2]

\* tick(state, dt) on heap h: the returned state s and the heap h afterwards.
\* `let s = { ...state }` copies the reference state.enemy, not the object.
tick(state, h, dt, now, pinned) ==
  LET s == [state EXCEPT !.lastSeen = now]
  IN IF s.enemy = Null THEN [s |-> s, h |-> h]
     ELSE
       LET r == s.enemy
           dps == totalDps(s.heroes)
           h1 == IF dps > 0 /\ h[r].hp > 0
                 THEN [h EXCEPT ![r].hp = Max(0, h[r].hp - dps * dt)] ELSE h
           timed == h1[r].isBoss /\ h1[r].bossTimeLeft # Undefined
           h2 == IF timed
                 THEN [h1 EXCEPT ![r].bossTimeLeft = Max(0, h1[r].bossTimeLeft - dt)]
                 ELSE h1
       IN IF timed /\ h2[r].bossTimeLeft = 0 /\ h2[r].hp > 0
          THEN tickEscape(s, h2, pinned)
          ELSE IF h2[r].hp = 0 THEN tickKill(s, h2, pinned)
          ELSE [s |-> s, h |-> h2]

----------------------------------------------------------------------------
(* Offline accelerator *)

\* the locals of simulateOffline that the loop updates
OfflineLocals(s, h, timeLeft) ==
  [s |-> s, h |-> h, timeLeft |-> timeLeft, kills |-> 0, goldEarned |-> 0,
   floorsCleared |-> 0]

\* variant of onKill that does not count cleared floors
onKill_NoFloorCount(L, enemy, pinned) ==
  LET reward == goldRewardFor(enemy, L.s.floor)
      s1 == [L.s EXCEPT !.gold = @ + reward, !.lifetimeGold = @ + reward]
      L1 == [L EXCEPT !.goldEarned = @ + reward, !.kills = @ + 1]
  IN IF enemy.isBoss
     THEN LET a == AssignEnemy([s1 EXCEPT !.floor = s1.floor + 1, !.killsThisFloor = 0],
                               L.h, pinned, makeEnemy(s1.floor + 1, FALSE))
          IN [L1 EXCEPT !.s = a.s, !.h = a.h]
     ELSE LET k == s1.killsThisFloor + 1
              a == IF k >= ENEMY.killsPerFloor
                   THEN AssignEnemy([s1 EXCEPT !.killsThisFloor = ENEMY.killsPerFloor],
                                    L.h, pinned, makeEnemy(s1.floor, TRUE))
                   ELSE AssignEnemy([s1 EXCEPT !.killsThisFloor = k],
                                    L.h, pinned, makeEnemy(s1.floor, FALSE))
          IN [L1 EXCEPT !.s = a.s, !.h = a.h]

onKill(L, enemy, pinned) ==
  LET reward == goldRewardFor(enemy, L.s.floor)
      s1 == [L.s EXCEPT !.gold = @ + reward, !.lifetimeGold = @ + reward]
      L1 == [L EXCEPT !.goldEarned = @ + reward, !.kills = @ + 1]
  IN IF enemy.isBoss
     THEN LET a == AssignEnemy([s1 EXCEPT !.floor = s1.floor + 1, !.killsThisFloor = 0],
                               L.h, pinned, makeEnemy(s1.floor + 1, FALSE))
          IN [L1 EXCEPT !.s = a.s, !.h = a.h, !.floorsCleared = @ + 1]
     ELSE LET k == s1.killsThisFloor + 1
              a == IF k >= ENEMY.killsPerFloor
                   THEN AssignEnemy([s1 EXCEPT !.killsThisFloor = ENEMY.killsPerFloor],
                                    L.h, pinned, makeEnemy(s1.floor, TRUE))
                   ELSE AssignEnemy([s1 EXCEPT !.killsThisFloor = k],
                                    L.h, pinned, makeEnemy(s1.floor, FALSE))
          IN [L1 EXCEPT !.s = a.s, !.h = a.h]

\* for (let i = 0; i < canBulk; i++) onKill(enemy)
RECURSIVE BulkKills(_, _, _, _)
BulkKills(L, enemy, n, pinned) ==
  IF n <= 0 THEN L ELSE BulkKills(onKill(L, enemy, pinned), enemy, n - 1, pinned)

\* variant of offlineEscape that goes down a floor from floor 1 too
offlineEscape_NoClamp(L, enemy, pinned) ==
  LET spend == IF enemy.bossTimeLeft # Undefined THEN enemy.bossTimeLeft ELSE 0
      newFloor == L.s.floor - 1
      a == AssignEnemy([L.s EXCEPT !.floor = newFloor, !.killsThisFloor = 0],
                       L.h, pinned, makeEnemy(newFloor, FALSE))
  IN [L EXCEPT !.timeLeft = @ - spend, !.s = a.s, !.h = a.h]

\* the boss-escape branch of the offline loop
offlineEscape(L, enemy, pinned) ==
  LET spend == IF enemy.bossTimeLeft # Undefined THEN enemy.bossTimeLeft ELSE 0
      newFloor == Max(1, L.s.floor - 1)
      a == AssignEnemy([L.s EXCEPT !.floor = newFloor, !.killsThisFloor = 0],
                       L.h, pinned, makeEnemy(newFloor, FALSE))
  IN [L EXCEPT !.timeLeft = @ - spend, !.s = a.s, !.h = a.h]

\* variant of OfflineBody whose partial damage to a regular enemy neither
\* uses up the time nor leaves the loop
OfflineBody_NoBreak(L, dps, pinned) ==
  LET r == L.s.enemy
      enemy == L.h[r]
      partial == [locals |-> [L EXCEPT !.h[r].hp = Max(0, enemy.hp - dps * L.timeLeft)],
                  continue |-> TRUE]
  IN IF ~enemy.isBoss
     THEN LET timeToKill == enemy.hp \div dps
          IN IF enemy.hp < enemy.maxHp
             THEN IF L.timeLeft >= timeToKill
                  THEN [locals |-> onKill([L EXCEPT !.timeLeft = @ - timeToKill],
                                          enemy, pinned),
                        continue |-> TRUE]
                  ELSE partial
             ELSE LET remainingToBoss == ENEMY.killsPerFloor - L.s.killsThisFloor
                      perKill == enemy.maxHp \div dps
                      canBulk == Min(L.timeLeft \div perKill, remainingToBoss)
                  IN IF canBulk >= 1
                     THEN [locals |-> BulkKills([L EXCEPT !.timeLeft = @ - canBulk * perKill],
                                                enemy, canBulk, pinned),
                           continue |-> TRUE]
                     ELSE IF L.timeLeft >= perKill
                     THEN [locals |-> onKill([L EXCEPT !.timeLeft = @ - perKill],
                                             enemy, pinned),
                           continue |-> TRUE]
                     ELSE partial
     ELSE LET timeToKill == enemy.hp \div dps
              bossTime == IF enemy.bossTimeLeft # Undefined THEN enemy.bossTimeLeft
                          ELSE ENEMY.bossTimeSeconds * TimeScale
              timeAvailable == Min(bossTime, L.timeLeft)
              left0 == IF enemy.bossTimeLeft # Undefined THEN enemy.bossTimeLeft ELSE 0
          IN IF timeToKill <= timeAvailable
             THEN [locals |-> onKill([L EXCEPT !.timeLeft = @ - timeToKill], enemy, pinned),
                   continue |-> TRUE]
             ELSE IF L.timeLeft < left0
             THEN [locals |-> [L EXCEPT !.h[r].hp = Max(0, enemy.hp - dps * L.timeLeft),
                                        !.h[r].bossTimeLeft = left0 - L.timeLeft,
                                        !.timeLeft = 0],
                   continue |-> FALSE]
             ELSE [locals |-> offlineEscape(L, enemy, pinned), continue |-> TRUE]

\* one pass through the body of the while loop: the locals afterwards and
\* whether the pass ended in `continue` (FALSE: `break`)
OfflineBody(L, dps, pinned) ==
  LET r == L.s.enemy
      enemy == L.h[r]
      partial == [locals |-> [L EXCEPT !.h[r].hp = Max(0, enemy.hp - dps * L.timeLeft),
                                       !.timeLeft = 0],
                  continue |-> FALSE]
  IN IF ~enemy.isBoss
     THEN LET timeToKill == enemy.hp \div dps
          IN IF enemy.hp < enemy.maxHp
             THEN IF L.timeLeft >= timeToKill
                  THEN [locals |-> onKill([L EXCEPT !.timeLeft = @ - timeToKill],
                                          enemy, pinned),
                        continue |-> TRUE]
                  ELSE partial
             ELSE LET remainingToBoss == ENEMY.killsPerFloor - L.s.killsThisFloor
                      perKill == enemy.maxHp \div dps
                      canBulk == Min(L.timeLeft \div perKill, remainingToBoss)
                  IN IF canBulk >= 1
                     THEN [locals |-> BulkKills([L EXCEPT !.timeLeft = @ - canBulk * perKill],
                                                enemy, canBulk, pinned),
                           continue |-> TRUE]
                     ELSE IF L.timeLeft >= perKill
                     THEN [locals |-> onKill([L EXCEPT !.timeLeft = @ - perKill],
                                             enemy, pinned),
                           continue |-> TRUE]
                     ELSE partial
     ELSE LET timeToKill == enemy.hp \div dps
              bossTime == IF enemy.bossTimeLeft # Undefined THEN enemy.bossTimeLeft
                          ELSE ENEMY.bossTimeSeconds * TimeScale
              timeAvailable == Min(bossTime, L.timeLeft)
              left0 == IF enemy.bossTimeLeft # Undefined THEN enemy.bossTimeLeft ELSE 0
          IN IF timeToKill <= timeAvailable
             THEN [locals |-> onKill([L EXCEPT !.timeLeft = @ - timeToKill], enemy, pinned),
                   continue |-> TRUE]
             ELSE IF L.timeLeft < left0
             THEN [locals |-> [L EXCEPT !.h[r].hp = Max(0, enemy.hp - dps * L.timeLeft),
                                        !.h[r].bossTimeLeft = left0 - L.timeLeft,
                                        !.timeLeft = 0],
                   continue |-> FALSE]
             ELSE [locals |-> offlineEscape(L, enemy, pinned), continue |-> TRUE]

RECURSIVE OfflineLoop(_, _, _, _)

\* after a pass b through the body: `continue` goes back to the loop test,
\* `break` leaves the loop
OfflineAfter(b, safety, dps, pinned) ==
  IF b.continue THEN OfflineLoop(b.locals, safety, dps, pinned) ELSE b.locals

\* while (timeLeft > 0 && safety-- > 0 && s.enemy) { ... }
OfflineLoop(L, safety, dps, pinned) ==
  IF ~(L.timeLeft > 0 /\ safety > 0 /\ L.s.enemy # Null) THEN L
  ELSE OfflineAfter(OfflineBody(L, dps, pinned), safety - 1, dps, pinned)

\* variant of the return of simulateOffline that does not report boss kills
\* as kills
OfflineReturn_RegularKills(L, seconds, now) ==
  [s |-> [L.s EXCEPT !.lastSeen = now], h |-> L.h,
   report |-> [seconds |-> seconds, kills |-> L.kills - L.floorsCleared,
               gold |-> L.goldEarned, floors |-> L.floorsCleared]]

\* s.lastSeen = Date.now(); return { state: s, report: { seconds, kills, gold, floors } }
OfflineReturn(L, seconds, now) ==
  [s |-> [L.s EXCEPT !.lastSeen = now], h |-> L.h,
   report |-> [seconds |-> seconds, kills |-> L.kills,
               gold |-> L.goldEarned, floors |-> L.floorsCleared]]

\* variant of simulateOffline that lets the boss timer run while it stops early
simulateOffline_IdleTimer(state, h, seconds, now, pinned) ==
  LET a == IF state.enemy = Null
           THEN AssignEnemy(state, h, pinned, makeEnemy(state.floor, FALSE))
           ELSE [s |-> state, h |-> h]
      dps == totalDps(a.s.heroes)
  IN IF dps <= 0 \/ seconds <= 0
     THEN [s |-> [a.s EXCEPT !.lastSeen = now],
           h |-> IF a.h[a.s.enemy].isBoss /\ seconds > 0
                 THEN [a.h EXCEPT ![a.s.enemy].bossTimeLeft = Max(0, @ - seconds)]
                 ELSE a.h,
           report |-> [seconds |-> seconds, kills |-> 0, gold |-> 0, floors |-> 0]]
     ELSE OfflineReturn(OfflineLoop(OfflineLocals(a.s, a.h, seconds), 200000, dps, pinned),
                        seconds, now)

\* simulateOffline(state, seconds): the returned state, the heap afterwards
\* and the report
simulateOffline(state, h, seconds, now, pinned) ==
  LET a == IF state.enemy = Null
           THEN AssignEnemy(state, h, pinned, makeEnemy(state.floor, FALSE))
           ELSE [s |-> state, h |-> h]
      dps == totalDps(a.s.heroes)
  IN IF dps <= 0 \/ seconds <= 0
     THEN [s |-> [a.s EXCEPT !.lastSeen = now], h |-> a.h,
           report |-> [seconds |-> seconds, kills |-> 0, gold |-> 0, floors |-> 0]]
     ELSE OfflineReturn(OfflineLoop(OfflineLocals(a.s, a.h, seconds), 200000, dps, pinned),
                        seconds, now)

----------------------------------------------------------------------------
(* Manual attack and purchases: the updater functions passed to setSave.   *)
(* What a handler reads from `save` is read from the rendered snapshot.   *)

\* variant of clickKill that pays a boss with the floor after the advance
clickKill_RewardAfterAdvance(s, h, pinned, newEnemy) ==
  LET floorPaid == IF newEnemy.isBoss THEN s.floor + 1 ELSE s.floor
      reward == goldRewardFor(newEnemy, floorPaid)
      s1 == [s EXCEPT !.gold = @ + reward, !.lifetimeGold = @ + reward]
  IN IF newEnemy.isBoss
     THEN AssignEnemy([s1 EXCEPT !.floor = s.floor + 1, !.killsThisFloor = 0],
                      h, pinned, makeEnemy(s.floor + 1, FALSE))
     ELSE LET kills == s.killsThisFloor + 1
          IN IF kills >= ENEMY.killsPerFloor
             THEN AssignEnemy([s1 EXCEPT !.killsThisFloor = ENEMY.killsPerFloor],
                              h, pinned, makeEnemy(s.floor, TRUE))
             ELSE AssignEnemy([s1 EXCEPT !.killsThisFloor = kills],
                              h, pinned, makeEnemy(s.floor, FALSE))

\* the kill branch of the updater in handleClick
clickKill(s, h, pinned, newEnemy) ==
  LET reward == goldRewardFor(newEnemy, s.floor)
      s1 == [s EXCEPT !.gold = @ + reward, !.lifetimeGold = @ + reward]
  IN IF newEnemy.isBoss
     THEN AssignEnemy([s1 EXCEPT !.floor = s.floor + 1, !.killsThisFloor = 0],
                      h, pinned, makeEnemy(s.floor + 1, FALSE))
     ELSE LET kills == s.killsThisFloor + 1
          IN IF kills >= ENEMY.killsPerFloor
             THEN AssignEnemy([s1 EXCEPT !.killsThisFloor = ENEMY.killsPerFloor],
                              h, pinned, makeEnemy(s.floor, TRUE))
             ELSE AssignEnemy([s1 EXCEPT !.killsThisFloor = kills],
                              h, pinned, makeEnemy(s.floor, FALSE))

\* variant of handleClick without the kill branch
handleClick_NoKill(s, h, damage, pinned) ==
  IF s.enemy = Null THEN [s |-> s, h |-> h]
  ELSE LET newEnemy == [h[s.enemy] EXCEPT !.hp = Max(0, h[s.enemy].hp - damage)]
       IN AssignEnemy(s, h, pinned, newEnemy)

\* the updater in handleClick; damage is the memoised clickDamage
handleClick(s, h, damage, pinned) ==
  IF s.enemy = Null THEN [s |-> s, h |-> h]
  ELSE LET newEnemy == [h[s.enemy] EXCEPT !.hp = Max(0, h[s.enemy].hp - damage)]
       IN IF newEnemy.hp = 0 THEN clickKill(s, h, pinned, newEnemy)
          ELSE AssignEnemy(s, h, pinned, newEnemy)

\* variant of buyClickUpgrade without the affordability gate
buyClickUpgrade_NoGate(s, qty) ==
  LET cost == bulkCost(CLICK.baseCost, CLICK.growth, s.clickLevel - 1, qty)
  IN [s EXCEPT !.gold = s.gold - cost, !.clickLevel = s.clickLevel + qty]

buyClickUpgrade(s, qty) ==
  LET cost == bulkCost(CLICK.baseCost, CLICK.growth, s.clickLevel - 1, qty)
  IN IF s.gold < cost THEN s
     ELSE [s EXCEPT !.gold = s.gold - cost, !.clickLevel = s.clickLevel + qty]

\* heroLevels(id), read from the rendered save
heroLevels(view, id) == IF id \in DOMAIN view.heroes THEN view.heroes[id] ELSE 0

\* variant of buyHeroLevels without the affordability gate
buyHeroLevels_NoGate(s, view, heroId, qty) ==
  LET hero == HEROES[heroId]
      current == heroLevels(view, heroId)
      cost == bulkCost(hero.baseCost, hero.growth, current, qty)
  IN [s EXCEPT !.gold = s.gold - cost, !.heroes[heroId] = @ + qty]

buyHeroLevels(s, view, heroId, qty) ==
  LET hero == HEROES[heroId]
      current == heroLevels(view, heroId)
      cost == bulkCost(hero.baseCost, hero.growth, current, qty)
  IN IF s.gold < cost THEN s
     ELSE [s EXCEPT !.gold = s.gold - cost, !.heroes[heroId] = @ + qty]

\* the state resetProgress installs (no lastSeen)
\* variant of resetProgress that installs the kill counter of a boss encounter
resetState_BossCounter(r) ==
  [gold |-> 0, lifetimeGold |-> 0, clickLevel |-> 1, floor |-> 1,
   killsThisFloor |-> ENEMY.killsPerFloor,
   heroes |-> [i \in HeroIds |-> 0], enemy |-> r, lastSeen |-> Undefined]

resetState(r) ==
  [gold |-> 0, lifetimeGold |-> 0, clickLevel |-> 1, floor |-> 1, killsThisFloor |-> 0,
   heroes |-> [i \in HeroIds |-> 0], enemy |-> r, lastSeen |-> Undefined]

----------------------------------------------------------------------------
(* The application: the persistent state `save`, the snapshot the handlers *)
(* of the last render closed over, and the record of the last operation.   *)

Sec(n) == n * TimeScale
Hp(whole, units) == whole * HpScale + units
Gold(whole, units) == whole * GoldScale + units

DtSet == {0, Sec(1), Sec(3), Sec(30)}       \* measured dt of a tick
ElapsedSet == {0, Sec(1), Sec(10)}          \* clamped (now - lastSeen) / 1000 at mount
QtySet == {1, 2}                            \* qty of a purchase
NowSet == {2}                               \* Date.now(), later than the loaded lastSeen

State(gold, lifetimeGold, clickLevel, floor, killsThisFloor, heroes, enemy, lastSeen) ==
  [gold |-> gold, lifetimeGold |-> lifetimeGold, clickLevel |-> clickLevel,
   floor |-> floor, killsThisFloor |-> killsThisFloor, heroes |-> heroes,
   enemy |-> enemy, lastSeen |-> lastSeen]

Levels(h1, h2, h3) ==
  [i \in HeroIds |-> IF i = 1 THEN h1 ELSE IF i = 2 THEN h2 ELSE IF i = 3 THEN h3 ELSE 0]

\* a saved state whose enemy is a regular enemy with the given hp
Regular(s, hp) == [s |-> s, e |-> [makeEnemy(s.floor, FALSE) EXCEPT !.hp = hp]]

\* a saved state whose enemy is the boss with the given hp and time left
Boss(s, hp, left) ==
  [s |-> s, e |-> [makeEnemy(s.floor, TRUE) EXCEPT !.hp = hp, !.bossTimeLeft = left]]

\* The states a save can hold when the page is loaded, each with the object
\* save.enemy refers to.  Every one is a state of a game played from the
\* default state; the rewards are 0.51 gold for a floor-1 kill, 12.24 for the
\* floor-1 boss, 0.832 for a floor-2 kill, 39.936 for the floor-2 boss and
\* 1.3568 for a floor-3 kill.
SavedStates ==
  LET \* nothing killed yet
      fresh == State(0, 0, 1, 1, 0, Levels(0, 0, 0), 1, 1)
      \* 216 floor-1 kills, every boss escaped, nothing bought
      rich == State(Gold(110, 16000), Gold(110, 16000), 1, 1, 16, Levels(0, 0, 0), 1, 1)
      \* 500 floor-1 kills, one Archer (250 gold) bought
      archer == State(Gold(5, 0), Gold(255, 0), 1, 1, 0, Levels(0, 1, 0), 1, 1)
      \* 19 kills later
      archer19 == State(Gold(14, 69000), Gold(264, 69000), 1, 1, 19, Levels(0, 1, 0), 1, 1)
      \* one more kill: the floor-1 boss
      archerBoss1 == State(Gold(15, 20000), Gold(265, 20000), 1, 1, 20, Levels(0, 1, 0), 1, 1)
      \* that boss and 20 floor-2 kills later: the floor-2 boss
      archerBoss2 == State(Gold(44, 8000), Gold(294, 8000), 1, 2, 20, Levels(0, 1, 0), 1, 1)
      \* 20 floor-1 kills by clicking alone: the floor-1 boss
      clickerBoss1 == State(Gold(10, 20000), Gold(10, 20000), 1, 1, 20, Levels(0, 0, 0), 1, 1)
      \* the floor-2 boss reached by clicking alone (39.08 gold), two click
      \* upgrades (21.5 gold) bought
      clickerBoss == State(Gold(17, 58000), Gold(39, 8000), 3, 2, 20, Levels(0, 0, 0), 1, 1)
      \* 8980 floor-1 kills, four Mages (4573.129 gold) bought
      mage == State(Gold(6, 67100), Gold(4579, 80000), 1, 1, 0, Levels(0, 0, 4), 1, 1)
      \* floors 1 and 2 cleared and 20 floor-3 kills later: the floor-3 boss
      mageBoss3 == State(Gold(112, 82300), Gold(4685, 95200), 1, 3, 20, Levels(0, 0, 4), 1, 1)
  IN { [s |-> [fresh EXCEPT !.enemy = Null], e |-> Free],
       Regular(fresh, Hp(10, 0)), Regular(fresh, Hp(9, 0)), Regular(fresh, Hp(1, 0)),
       Regular(rich, Hp(10, 0)), Regular(rich, Hp(1, 0)),
       Regular(archer, Hp(10, 0)), Regular(archer, Hp(5, 0)),
       Regular(archer19, Hp(10, 0)), Regular(archer19, Hp(5, 0)),
       Boss(archerBoss1, Hp(120, 0), Sec(30)), Boss(archerBoss1, Hp(20, 0), Sec(10)),
       Boss(archerBoss1, Hp(15, 0), Sec(15)), Boss(archerBoss1, Hp(110, 0), Sec(1)),
       Boss(archerBoss2, Hp(192, 0), Sec(30)), Boss(archerBoss2, Hp(67, 0), Sec(5)),
       Boss(archerBoss2, Hp(47, 0), Sec(1)),
       Boss(clickerBoss1, Hp(120, 0), Sec(30)), Boss(clickerBoss1, Hp(60, 0), Sec(1)),
       Boss(clickerBoss, Hp(192, 0), Sec(30)), Boss(clickerBoss, Hp(192, 0), Sec(1)),
       Boss(clickerBoss, Hp(1, 3750), Sec(12)),
       Regular(mage, Hp(10, 0)),
       Boss(mageBoss3, Hp(307, 2000), Sec(30)), Boss(mageBoss3, Hp(107, 2000), Sec(28)) }

View(s) == [enemy |-> s.enemy, clickLevel |-> s.clickLevel, heroes |-> s.heroes,
            pending |-> 0]

\* the last operation: the state and the snapshot it was called with, the
\* caller's enemy object before (preEnemy) and after (argEnemy) the call, its
\* input (x, hero), its report, and the number of operations since the load
Last(op, pre, view, preEnemy, argEnemy, x, hero, report, n) ==
  [op |-> op, pre |-> pre, view |-> view, preEnemy |-> preEnemy, argEnemy |-> argEnemy,
   x |-> x, hero |-> hero, report |-> report, n |-> n]

NoReport == [seconds |-> 0, kills |-> 0, gold |-> 0, floors |-> 0]

NoEq == [on |-> FALSE]

NoFn == [name |-> "none"]

Init ==
  \E i \in SavedStates :
    /\ save = i.s
    /\ heap = [r \in Refs |-> IF r = i.s.enemy THEN i.e ELSE Free]
    /\ rendered = View(i.s)
    /\ last = Last("load", i.s, View(i.s), i.e, i.e, 0, 0, NoReport, 0)
    /\ eq = NoEq
    /\ fn = NoFn

Pinned == {save.enemy, rendered.enemy} \ {Null}

Running == last.op # "load" /\ last.n < MaxSteps /\ rendered.pending < MaxPending

\* an updater called with the state pre (on heap preHeap) has run: res is
\* the state it returned and the heap it left
Commit(op, pre, preHeap, res, x, hero, report) ==
  LET c == Canon(res.s, [rendered EXCEPT !.pending = @ + 1], res.h)
  IN /\ save' = c.s
     /\ heap' = c.h
     /\ rendered' = c.view
     /\ last' = Last(op, pre, rendered, Deref(preHeap, pre.enemy),
                     Deref(res.h, pre.enemy), x, hero, report, last.n + 1)
     /\ UNCHANGED <<eq, fn>>

\* const { state, report } = simulateOffline(save, elapsed); setSave(state)
CommitOffline(pre, preHeap, res, elapsed) ==
  Commit("offline", pre, preHeap, res, elapsed, 0, res.report)

\* the effect that fills a missing enemy: s => ({ ...s, enemy: makeEnemy(s.floor, false) })
fillEnemy(s, h, pinned) == AssignEnemy(s, h, pinned, makeEnemy(s.floor, FALSE))

\* the effects of the first render: fill the missing enemy, then catch up
Mount ==
  /\ last.op = "load"
  /\ \E elapsed \in ElapsedSet, now \in NowSet :
       LET filled == IF rendered.enemy = Null THEN fillEnemy(save, heap, Pinned)
                     ELSE [s |-> save, h |-> heap]
       IN IF elapsed < Sec(1) \/ save.lastSeen = Undefined
          THEN /\ elapsed = 0
               /\ Commit("mount", save, heap, filled, 0, 0, NoReport)
          ELSE CommitOffline(filled.s, filled.h,
                             simulateOffline(filled.s, filled.h, elapsed, now,
                                             Pinned \cup {filled.s.enemy}),
                             elapsed)

Tick ==
  /\ Running
  /\ \E dt \in DtSet, now \in NowSet :
       Commit("tick", save, heap, tick(save, heap, dt, now, Pinned), dt, 0, NoReport)

Click ==
  /\ Running
  /\ rendered.enemy # Null
  /\ heap[rendered.enemy].hp # 0
  /\ Commit("click", save, heap,
            handleClick(save, heap, clickDamage(rendered.clickLevel), Pinned),
            clickDamage(rendered.clickLevel), 0, NoReport)

BuyClick ==
  /\ Running
  /\ \E qty \in QtySet :
       Commit("buyClick", save, heap, [s |-> buyClickUpgrade(save, qty), h |-> heap],
              qty, 0, NoReport)

BuyHero ==
  /\ Running
  /\ \E heroId \in HeroIds, qty \in QtySet :
       Commit("buyHero", save, heap,
              [s |-> buyHeroLevels(save, rendered, heroId, qty), h |-> heap],
              qty, heroId, NoReport)

Reset ==
  /\ Running
  /\ LET a == AssignEnemy(save, heap, Pinned, makeEnemy(1, FALSE))
     IN Commit("reset", save, heap, [s |-> resetState(a.s.enemy), h |-> a.h],
               0, 0, NoReport)

\* React renders: the handlers close over the current save
Render ==
  /\ last.op # "load"
  /\ rendered.pending > 0
  /\ LET c == Canon(save, View(save), heap)
     IN save' = c.s /\ heap' = c.h /\ rendered' = c.view
  /\ UNCHANGED <<last, eq, fn>>

\* the page is loaded again: the save comes back from localStorage, its
\* enemy a new object with the same fields
Reload ==
  /\ last.op # "load"
  /\ last.n < MaxSteps
  /\ LET c == Canon(save, View(save), heap)
     IN /\ save' = c.s /\ heap' = c.h /\ rendered' = c.view
        /\ last' = Last("load", c.s, c.view, Deref(c.h, c.s.enemy), Deref(c.h, c.s.enemy),
                        0, 0, NoReport, last.n)
  /\ UNCHANGED <<eq, fn>>

Next == Mount \/ Tick \/ Click \/ BuyClick \/ BuyHero \/ Reset \/ Render \/ Reload

Spec == Init /\ [][Next]_vars

----------------------------------------------------------------------------
(* Tick by tick against the offline accelerator: from a loaded state the   *)
(* ticks of a duration T run one after the other on `save`, and eq.off is  *)
(* what one call simulateOffline(state, T) returns for the same state.     *)

EqDtSet == {Sec(1) \div 20, Sec(1) \div 10}     \* the tick period and twice that
EqDurations == {Sec(1), Sec(2)}

EqResult(s) == [gold |-> s.gold, floor |-> s.floor, killsThisFloor |-> s.killsThisFloor]

InitEq ==
  \E i \in SavedStates, T \in EqDurations :
    LET h == [r \in Refs |-> IF r = i.s.enemy THEN i.e ELSE Free]
        off == simulateOffline(i.s, h, T, 2, {i.s.enemy} \ {Null})
    IN /\ save = i.s
       /\ heap = h
       /\ rendered = View(i.s)
       /\ last = Last("load", i.s, View(i.s), i.e, i.e, 0, 0, NoReport, 0)
       /\ fn = NoFn
       /\ eq = [on |-> TRUE, T |-> T, elapsed |-> 0, dps |-> totalDps(i.s.heroes),
                off |-> EqResult(off.s)]

EqTick ==
  /\ eq.on
  /\ \E dt \in EqDtSet :
       /\ eq.elapsed + dt <= eq.T
       /\ LET res == tick(save, heap, dt, 2, Pinned)
              c == Canon(res.s, View(res.s), res.h)
          IN save' = c.s /\ heap' = c.h /\ rendered' = c.view
       /\ eq' = [eq EXCEPT !.elapsed = @ + dt]
       /\ UNCHANGED <<last, fn>>

NextEq == EqTick

SpecEq == InitEq /\ [][NextEq]_vars

----------------------------------------------------------------------------
(* tick as a function of its argument: one call on a state the type        *)
(* SaveData allows.  usePersistentState parses whatever JSON the storage    *)
(* holds, so the enemy of a loaded state may have hp 0, a boss may have     *)
(* bossTimeLeft 0 or no bossTimeLeft at all.                                *)

EnemyVariants(e) ==
  IF e = Free THEN {e}
  ELSE {e, [e EXCEPT !.hp = 0]}
         \cup (IF e.isBoss
               THEN {[e EXCEPT !.bossTimeLeft = 0], [e EXCEPT !.bossTimeLeft = Undefined],
                     [e EXCEPT !.hp = 0, !.bossTimeLeft = 0]}
               ELSE {})

InitTick ==
  \E i \in SavedStates :
    \E e \in EnemyVariants(i.e) :
      /\ save = i.s
      /\ heap = [r \in Refs |-> IF r = i.s.enemy THEN e ELSE Free]
      /\ rendered = View(i.s)
      /\ last = Last("load", i.s, View(i.s), e, e, 0, 0, NoReport, 0)
      /\ eq = NoEq
      /\ fn = NoFn

TickOnce ==
  /\ last.op = "load"
  /\ \E dt \in DtSet, now \in NowSet :
       Commit("tick", save, heap, tick(save, heap, dt, now, Pinned), dt, 0, NoReport)

NextTick == TickOnce

SpecTick == InitTick /\ [][NextTick]_vars

----------------------------------------------------------------------------
(* The purchase operations as functions of qty: buyClickUpgrade(qty) and   *)
(* buyHeroLevels(heroId, qty) take any number; the buttons pass 1, 10, 100. *)

AnyQtySet == {-1, 0, 1}

Buying == last.n < MaxSteps /\ rendered.pending < MaxPending

BuyClickAny ==
  /\ Buying
  /\ \E qty \in AnyQtySet :
       Commit("buyClick", save, heap, [s |-> buyClickUpgrade(save, qty), h |-> heap],
              qty, 0, NoReport)

BuyHeroAny ==
  /\ Buying
  /\ \E heroId \in HeroIds, qty \in AnyQtySet :
       Commit("buyHero", save, heap,
              [s |-> buyHeroLevels(save, rendered, heroId, qty), h |-> heap],
              qty, heroId, NoReport)

NextBuy == BuyClickAny \/ BuyHeroAny \/ Render

SpecBuy == Init /\ [][NextBuy]_vars

----------------------------------------------------------------------------
(* bulkCost and makeEnemy as functions: fn holds the arguments of one call *)
(* and, once it has returned, its result.                                  *)

\* prices of the game, a flat price (growth 1) and a steep one (growth 1.5)
BaseSet == {CLICK.baseCost, HEROES[1].baseCost, HEROES[2].baseCost}
GrowthSet ==
  {CLICK.growth, HEROES[1].growth, HEROES[2].growth, HEROES[3].growth,
   [num |-> 1, den |-> 1], [num |-> 3, den |-> 2]}
LevelSet == 0 .. 3
BulkQtySet == -1 .. 4
FloorSet == 1 .. 5

InitFn ==
  /\ save = State(0, 0, 1, 1, 0, Levels(0, 0, 0), Null, 1)
  /\ heap = EmptyHeap
  /\ rendered = View(save)
  /\ last = Last("load", save, View(save), Free, Free, 0, 0, NoReport, 0)
  /\ eq = NoEq
  /\ \/ \E base \in BaseSet, growth \in GrowthSet, level \in LevelSet, qty \in BulkQtySet :
          fn = [name |-> "bulkCost", base |-> base, growth |-> growth,
                currentLevel |-> level, qty |-> qty, returned |-> FALSE]
     \/ \E floor \in FloorSet, boss \in BOOLEAN :
          fn = [name |-> "makeEnemy", floor |-> floor, boss |-> boss, returned |-> FALSE]

CallBulkCost ==
  /\ fn.name = "bulkCost"
  /\ ~fn.returned
  /\ fn' = [name |-> "bulkCost", base |-> fn.base, growth |-> fn.growth,
            currentLevel |-> fn.currentLevel, qty |-> fn.qty, returned |-> TRUE,
            result |-> bulkCost(fn.base, fn.growth, fn.currentLevel, fn.qty)]
  /\ UNCHANGED <<save, heap, rendered, last, eq>>

CallMakeEnemy ==
  /\ fn.name = "makeEnemy"
  /\ ~fn.returned
  /\ fn' = [name |-> "makeEnemy", floor |-> fn.floor, boss |-> fn.boss, returned |-> TRUE,
            result |-> makeEnemy(fn.floor, fn.boss)]
  /\ UNCHANGED <<save, heap, rendered, last, eq>>

NextFn == CallBulkCost \/ CallMakeEnemy

SpecFn == InitFn /\ [][NextFn]_vars

----------------------------------------------------------------------------
(* The loop of simulateOffline pass by pass: fn holds the locals of a call *)
(* simulateOffline(save, seconds) with total DPS > 0, the value of         *)
(* `safety`, the number of passes made and the passes still to make.       *)

LoopSeconds == {0, Sec(1), Sec(10), Sec(120)}

\* the ceiling of the code and a low one that the calls above reach
SafetySet == {200000, 2}

RECURSIVE OfflinePasses(_, _, _, _)

OfflinePassesAfter(b, safety, dps, pinned) ==
  <<b>> \o (IF b.continue THEN OfflinePasses(b.locals, safety, dps, pinned) ELSE <<>>)

\* what the passes of the loop return, one after the other, from the locals L
OfflinePasses(L, safety, dps, pinned) ==
  IF ~(L.timeLeft > 0 /\ safety > 0 /\ L.s.enemy # Null) THEN <<>>
  ELSE OfflinePassesAfter(OfflineBody(L, dps, pinned), safety - 1, dps, pinned)

InitLoop ==
  \E i \in SavedStates, seconds \in LoopSeconds, safety \in SafetySet :
    /\ i.s.enemy # Null
    /\ totalDps(i.s.heroes) > 0
    /\ save = i.s
    /\ heap = [r \in Refs |-> IF r = i.s.enemy THEN i.e ELSE Free]
    /\ rendered = View(i.s)
    /\ last = Last("load", i.s, View(i.s), i.e, i.e, 0, 0, NoReport, 0)
    /\ eq = NoEq
    /\ fn = [name |-> "simulateOffline", seconds |-> seconds, ceiling |-> safety,
             dps |-> totalDps(i.s.heroes), safety |-> safety, passes |-> 0,
             done |-> FALSE, L |-> OfflineLocals(save, heap, seconds),
             todo |-> OfflinePasses(OfflineLocals(save, heap, seconds), safety,
                                    totalDps(i.s.heroes), {save.enemy})]

\* timeLeft > 0 && safety-- > 0 && s.enemy
LoopTest == fn.L.timeLeft > 0 /\ fn.safety > 0 /\ fn.L.s.enemy # Null

\* one pass through the body
LoopPass ==
  /\ fn.name = "simulateOffline"
  /\ ~fn.done
  /\ LoopTest
  /\ fn.todo # <<>>
  /\ fn' = [fn EXCEPT !.L = Head(fn.todo).locals, !.safety = @ - 1, !.passes = @ + 1,
                      !.done = ~Head(fn.todo).continue, !.todo = Tail(@)]
  /\ UNCHANGED <<save, heap, rendered, last, eq>>

\* the loop test fails (for seconds = 0 the function has returned before it)
LoopExit ==
  /\ fn.name = "simulateOffline"
  /\ ~fn.done
  /\ ~LoopTest
  /\ fn' = [fn EXCEPT !.done = TRUE]
  /\ UNCHANGED <<save, heap, rendered, last, eq>>

NextLoop == LoopPass \/ LoopExit

SpecLoop == InitLoop /\ [][NextLoop]_vars /\ WF_vars(NextLoop)

----------------------------------------------------------------------------
(* The time bookkeeping of simulateOffline in binary floating point: a JS  *)
(* number is a sign, a significand of Precision bits and an exponent, and  *)
(* every operation rounds its exact result to the nearest such number,     *)
(* ties to even, as IEEE 754 does with 53 bits. fn holds the locals that   *)
(* the time depends on: timeLeft, kills, floor, killsThisFloor, the enemy. *)

Precision == 9

RECURSIVE Pow2(_)
Pow2(k) == IF k <= 0 THEN 1 ELSE 2 * Pow2(k - 1)

RECURSIVE IntPow(_, _)
IntPow(x, k) == IF k <= 0 THEN 1 ELSE x * IntPow(x, k - 1)

Zero == [sign |-> 1, m |-> 0, e |-> 0]

\* n / d rounded to the nearest integer, ties to even
RoundQ(n, d) ==
  LET q == n \div d
      r == n % d
  IN IF 2 * r > d \/ (2 * r = d /\ q % 2 = 1) THEN q + 1 ELSE q

RECURSIVE Normalize(_, _, _, _)

\* the number nearest to sign * (n / d) * 2^e, for n > 0 and d > 0
Normalize(sign, n, d, e) ==
  IF n < Pow2(Precision - 1) * d THEN Normalize(sign, 2 * n, d, e - 1)
  ELSE IF n >= Pow2(Precision) * d THEN Normalize(sign, n, 2 * d, e + 1)
  ELSE IF RoundQ(n, d) = Pow2(Precision)
       THEN [sign |-> sign, m |-> Pow2(Precision - 1), e |-> e + 1]
       ELSE [sign |-> sign, m |-> RoundQ(n, d), e |-> e]

\* the number nearest to n / d, n >= 0
Number(n, d) == IF n = 0 THEN Zero ELSE Normalize(1, n, d, 0)

Neg(a) == [a EXCEPT !.sign = -a.sign]

\* a / b
FDiv(a, b) ==
  IF a.m = 0 THEN Zero ELSE Normalize(a.sign * b.sign, a.m, b.m, a.e - b.e)

\* a * b
FMul(a, b) ==
  IF a.m = 0 \/ b.m = 0 THEN Zero
  ELSE Normalize(a.sign * b.sign, a.m * b.m, 1, a.e + b.e)

\* a - b; an operand more than Precision + 2 binary places below the other
\* does not change the rounded result
FSubAligned(n, e) ==
  IF n = 0 THEN Zero ELSE IF n < 0 THEN Normalize(-1, -n, 1, e) ELSE Normalize(1, n, 1, e)

FSub(a, b) ==
  IF b.m = 0 THEN a
  ELSE IF a.m = 0 THEN Neg(b)
  ELSE IF a.e - b.e > Precision + 2 THEN a
  ELSE IF b.e - a.e > Precision + 2 THEN Neg(b)
  ELSE FSubAligned(a.sign * a.m * Pow2(a.e - Min(a.e, b.e))
                     - b.sign * b.m * Pow2(b.e - Min(a.e, b.e)),
                   Min(a.e, b.e))

\* a < b and a <= b
FNegative(d) == d.m # 0 /\ d.sign = -1
FLess(a, b) == FNegative(FSub(a, b))
FLessEq(a, b) == ~FLess(b, a)

FMin(a, b) == IF FLess(b, a) THEN b ELSE a

\* Math.max(0, a)
FMax0(a) == IF FNegative(a) THEN Zero ELSE a

\* Math.floor(a), a >= 0
FFloor(a) ==
  IF a.e >= 0 THEN a.m * Pow2(a.e)
  ELSE IF -a.e > Precision THEN 0
  ELSE a.m \div Pow2(-a.e)

\* Math.pow(x, k), k >= 0: the exact power, rounded
FPow(x, k) == IF k = 0 THEN Number(1, 1) ELSE Normalize(1, IntPow(x.m, k), 1, k * x.e)

\* makeEnemy in floating point
makeEnemyF(floor, boss) ==
  [maxHp |-> IF boss
             THEN FMul(FMul(Number(ENEMY.baseHp, 1),
                            FPow(Number(ENEMY.floorGrowth.num, ENEMY.floorGrowth.den),
                                 floor - 1)),
                       Number(ENEMY.bossMultiplier, 1))
             ELSE FMul(Number(ENEMY.baseHp, 1),
                       FPow(Number(ENEMY.floorGrowth.num, ENEMY.floorGrowth.den),
                            floor - 1)),
   isBoss |-> boss]

\* a new encounter: hp = maxHp, bossTimeLeft = bossTimeSeconds for a boss
\* (the loop does not read the bossTimeLeft of a regular enemy)
FreshF(floor, boss) ==
  [maxHp |-> makeEnemyF(floor, boss).maxHp, hp |-> makeEnemyF(floor, boss).maxHp,
   isBoss |-> boss,
   bossTimeLeft |-> IF boss THEN Number(ENEMY.bossTimeSeconds, 1) ELSE Zero]

\* onKill for the locals T: kills, floor, killsThisFloor and the next enemy
onKillF(T, enemy) ==
  IF enemy.isBoss
  THEN [T EXCEPT !.kills = @ + 1, !.floor = @ + 1, !.killsThisFloor = 0,
                 !.enemy = FreshF(T.floor + 1, FALSE)]
  ELSE IF T.killsThisFloor + 1 >= ENEMY.killsPerFloor
  THEN [T EXCEPT !.kills = @ + 1, !.killsThisFloor = ENEMY.killsPerFloor,
                 !.enemy = FreshF(T.floor, TRUE)]
  ELSE [T EXCEPT !.kills = @ + 1, !.killsThisFloor = @ + 1,
                 !.enemy = FreshF(T.floor, FALSE)]

RECURSIVE BulkKillsF(_, _, _)
BulkKillsF(T, enemy, n) ==
  IF n = 0 THEN T ELSE BulkKillsF(onKillF(T, enemy), enemy, n - 1)

\* enemy.hp = Math.max(0, enemy.hp - dps * timeLeft); timeLeft = 0; break
PartialF(T, dps) ==
  [T EXCEPT !.enemy.hp = FMax0(FSub(T.enemy.hp, FMul(dps, T.timeLeft))),
            !.timeLeft = Zero, !.stop = TRUE]

\* the regular enemy at full hp: perKill and canBulk are passed on
BulkF(T, dps, perKill, canBulk) ==
  IF canBulk >= 1
  THEN BulkKillsF([T EXCEPT !.timeLeft = FSub(@, FMul(Number(canBulk, 1), perKill))],
                  T.enemy, canBulk)
  ELSE IF FLessEq(perKill, T.timeLeft)
  THEN onKillF([T EXCEPT !.timeLeft = FSub(@, perKill)], T.enemy)
  ELSE PartialF(T, dps)

\* the regular enemy below full hp
DamagedF(T, dps, timeToKill) ==
  IF FLessEq(timeToKill, T.timeLeft)
  THEN onKillF([T EXCEPT !.timeLeft = FSub(@, timeToKill)], T.enemy)
  ELSE PartialF(T, dps)

\* the boss
BossF(T, dps, timeToKill) ==
  IF FLessEq(timeToKill, FMin(T.enemy.bossTimeLeft, T.timeLeft))
  THEN onKillF([T EXCEPT !.timeLeft = FSub(@, timeToKill)], T.enemy)
  ELSE IF FLess(T.timeLeft, T.enemy.bossTimeLeft)
  THEN [T EXCEPT !.enemy.hp = FMax0(FSub(T.enemy.hp, FMul(dps, T.timeLeft))),
                 !.enemy.bossTimeLeft = FSub(@, T.timeLeft),
                 !.timeLeft = Zero, !.stop = TRUE]
  ELSE [T EXCEPT !.timeLeft = FSub(@, T.enemy.bossTimeLeft),
                 !.floor = Max(1, T.floor - 1), !.killsThisFloor = 0,
                 !.enemy = FreshF(Max(1, T.floor - 1), FALSE)]

\* one pass through the body of the loop, dps a number above 0
OfflineBodyF(T, dps) ==
  IF ~T.enemy.isBoss
  THEN IF FLess(T.enemy.hp, T.enemy.maxHp)
       THEN DamagedF(T, dps, FDiv(T.enemy.hp, dps))
       ELSE BulkF(T, dps, FDiv(T.enemy.maxHp, dps),
                  Min(FFloor(FDiv(T.timeLeft, FDiv(T.enemy.maxHp, dps))),
                      ENEMY.killsPerFloor - T.killsThisFloor))
  ELSE BossF(T, dps, FDiv(T.enemy.hp, dps))

\* elapsed times of the mount effect in ms, at least 1 s
MillisSet == {1000, 2500, 3600, 6800, 7000, 7800, 10000, 27200}

\* total DPS of one or two heroes
DpsSet == {1, 2, 5, 10, 25}

\* the encounters a call starts with on floors 1 and 2
StartSet ==
  {[floor |-> f, killsThisFloor |-> k, enemy |-> FreshF(f, FALSE)] :
      f \in {1, 2}, k \in {0, 10, 19}}
  \cup {[floor |-> f, killsThisFloor |-> k,
         enemy |-> [FreshF(f, FALSE) EXCEPT !.hp = FDiv(@, Number(d, 1))]] :
      f \in {1, 2}, k \in {0, 19}, d \in {2, 3}}
  \cup {[floor |-> f, killsThisFloor |-> ENEMY.killsPerFloor,
         enemy |-> [FreshF(f, TRUE) EXCEPT !.bossTimeLeft = Number(t, 1)]] :
      f \in {1, 2}, t \in {ENEMY.bossTimeSeconds, 5}}

InitTime ==
  /\ save = State(0, 0, 1, 1, 0, Levels(0, 0, 0), Null, 1)
  /\ heap = EmptyHeap
  /\ rendered = View(save)
  /\ last = Last("load", save, View(save), Free, Free, 0, 0, NoReport, 0)
  /\ eq = NoEq
  /\ \E ms \in MillisSet, dps \in DpsSet, start \in StartSet :
       fn = [name |-> "offlineTime", seconds |-> Number(ms, 1000),
             dps |-> Number(dps, 1), safety |-> 200000, before |-> Number(ms, 1000),
             timeLeft |-> Number(ms, 1000), kills |-> 0, stop |-> FALSE,
             floor |-> start.floor, killsThisFloor |-> start.killsThisFloor,
             enemy |-> start.enemy]

ApplyPassF(T) == fn' = [T EXCEPT !.safety = fn.safety - 1, !.before = fn.timeLeft]

\* timeLeft > 0 && safety-- > 0, then the body
TimePass ==
  /\ fn.name = "offlineTime"
  /\ ~fn.stop
  /\ FLess(Zero, fn.timeLeft)
  /\ fn.safety > 0
  /\ ApplyPassF(OfflineBodyF(fn, fn.dps))
  /\ UNCHANGED <<save, heap, rendered, last, eq>>

\* the loop test fails
TimeExit ==
  /\ fn.name = "offlineTime"
  /\ ~fn.stop
  /\ ~(FLess(Zero, fn.timeLeft) /\ fn.safety > 0)
  /\ fn' = [fn EXCEPT !.stop = TRUE]
  /\ UNCHANGED <<save, heap, rendered, last, eq>>

NextTime == TimePass \/ TimeExit

SpecTime == InitTime /\ [][NextTime]_vars

----------------------------------------------------------------------------
(* Properties *)

\* the enemy object of the current state and of the state the last
\* operation was called with
Cur == Deref(heap, save.enemy)
Pre == last.pre
PreDps == totalDps(last.pre.heroes)

\* two states agree on every field but lastSeen and on their enemy objects
SameButLastSeen(s1, e1, s2, e2) ==
  /\ [s1 EXCEPT !.lastSeen = 0, !.enemy = 0] = [s2 EXCEPT !.lastSeen = 0, !.enemy = 0]
  /\ (s1.enemy = Null) = (s2.enemy = Null)
  /\ e1 = e2

\* enemy.maxHp * 0.05 * (1 + floor * 0.02) in gold units, written out
RegularReward(maxHp, floor) == (maxHp * (100 + 2 * floor)) \div 200

\* C1: ticks of small dt that sum to T leave the same gold, floor and
\* killsThisFloor as one call simulateOffline(state, T)
C1_TicksMatchOffline ==
  (eq.on /\ eq.elapsed = eq.T) =>
    /\ save.gold = eq.off.gold
    /\ save.floor = eq.off.floor
    /\ save.killsThisFloor = eq.off.killsThisFloor

\* C2: no operation changes the enemy object of the state it was called with
C2_CopyOnWrite ==
  last.op \in {"tick", "offline", "click", "buyClick", "buyHero"} =>
    last.argEnemy = last.preEnemy

\* C3: killsThisFloor stays within [0, killsPerFloor]; the step in which it
\* reaches killsPerFloor installs the boss of the floor, and while it stays
\* there without a kill or an escape the same boss stays, nothing is paid
\* and the floor does not change
KillsInRange ==
  save.killsThisFloor >= 0 /\ save.killsThisFloor <= ENEMY.killsPerFloor

BossOnceStep ==
  /\ (save.killsThisFloor < ENEMY.killsPerFloor
        /\ save'.killsThisFloor = ENEMY.killsPerFloor)
       => /\ save'.enemy # Null
          /\ Cur'.isBoss
          /\ Cur'.maxHp = makeEnemy(save'.floor, TRUE).maxHp
          /\ last'.op # "offline" => Cur' = makeEnemy(save'.floor, TRUE)
  /\ (save.killsThisFloor = ENEMY.killsPerFloor
        /\ save'.killsThisFloor = ENEMY.killsPerFloor
        /\ (last' = last \/ last'.op # "offline" \/ last'.report.kills = 0))
       => /\ save'.enemy # Null /\ save.enemy # Null
          /\ Cur'.isBoss /\ Cur.isBoss
          /\ Cur'.maxHp = Cur.maxHp
          /\ Cur'.hp <= Cur.hp
          /\ Cur'.bossTimeLeft <= Cur.bossTimeLeft
          /\ save'.floor = save.floor
          /\ save'.lifetimeGold = save.lifetimeGold
          /\ save'.gold <= save.gold

C3_KillCounterCap == [] KillsInRange /\ [][BossOnceStep]_vars

C3_Witness ==
  /\ last.op \in {"tick", "click", "offline"}
  /\ Pre.killsThisFloor = ENEMY.killsPerFloor - 1
  /\ save.killsThisFloor = ENEMY.killsPerFloor
  /\ save.floor = Pre.floor
  /\ Cur.isBoss

\* C4: a boss whose time runs out while it still has hit points escapes:
\* floor becomes max(1, floor - 1), killsThisFloor 0, the enemy a new regular
\* enemy of that floor, gold and lifetimeGold stay; in tick, in one pass of
\* the offline loop and in a call of simulateOffline that ends with the escape
Escaped(pre, s, e) ==
  /\ s.floor = Max(1, pre.floor - 1)
  /\ s.killsThisFloor = 0
  /\ s.enemy # Null
  /\ e = makeEnemy(s.floor, FALSE)
  /\ s.gold = pre.gold
  /\ s.lifetimeGold = pre.lifetimeGold

\* the hit points left to the enemy e after t time units of dps
HpAfter(e, dps, t) == IF dps > 0 THEN e.hp - dps * t ELSE e.hp

TimesOut(e, dps, t) ==
  /\ e.isBoss
  /\ e.bossTimeLeft # Undefined
  /\ e.bossTimeLeft <= t
  /\ HpAfter(e, dps, e.bossTimeLeft) > 0

C4_BossEscape ==
  /\ (last.op = "tick" /\ Pre.enemy # Null
        /\ TimesOut(last.preEnemy, PreDps, last.x)
        /\ HpAfter(last.preEnemy, PreDps, last.x) > 0)
       => Escaped(Pre, save, Cur)
  /\ (last.op = "offline" /\ PreDps > 0
        /\ TimesOut(last.preEnemy, PreDps, last.x)
        /\ last.preEnemy.bossTimeLeft = last.x)
       => Escaped(Pre, save, Cur) /\ last.report.kills = 0
  /\ \A T \in ElapsedSet :
       (save.enemy # Null /\ totalDps(save.heroes) > 0 /\ T > 0
          /\ TimesOut(Cur, totalDps(save.heroes), T))
         => LET b == OfflineBody(OfflineLocals(save, heap, T), totalDps(save.heroes),
                                 Pinned)
            IN /\ b.continue
               /\ Escaped(save, b.locals.s, b.locals.h[b.locals.s.enemy])
               /\ b.locals.timeLeft = T - Cur.bossTimeLeft
               /\ b.locals.kills = 0

C4_Witness ==
  /\ last.op = "tick"
  /\ TimesOut(last.preEnemy, PreDps, last.x)
  /\ HpAfter(last.preEnemy, PreDps, last.x) > 0
  /\ PreDps > 0
  /\ Pre.floor = 2
  /\ save.floor = 1

\* C5: tick with dt = 0 changes no field but lastSeen, and not the enemy,
\* of a state without enemy or with an enemy that has hp > 0 and, if it is a
\* timed boss, bossTimeLeft > 0; an enemy with hp = 0 is resolved as a kill
\* and a timed-out boss with hp > 0 escapes
TickZero == last.op = "tick" /\ last.x = 0

Settled(s, e) ==
  \/ s.enemy = Null
  \/ /\ e.hp > 0
     /\ ~(e.isBoss /\ e.bossTimeLeft = 0)

C5_TickZeroIdentity ==
  TickZero =>
    IF Settled(Pre, last.preEnemy)
    THEN SameButLastSeen(save, Cur, Pre, last.preEnemy)
    ELSE IF last.preEnemy.hp = 0
    THEN /\ save.gold = Pre.gold + RegularReward(last.preEnemy.maxHp, Pre.floor)
                                     * (IF last.preEnemy.isBoss THEN 2 ELSE 1)
         /\ save.floor = Pre.floor + (IF last.preEnemy.isBoss THEN 1 ELSE 0)
         /\ save.killsThisFloor =
              (IF last.preEnemy.isBoss THEN 0
               ELSE Min(Pre.killsThisFloor + 1, ENEMY.killsPerFloor))
         /\ Cur.hp = Cur.maxHp
    ELSE Escaped(Pre, save, Cur)

C5_Original ==
  TickZero => SameButLastSeen(save, Cur, Pre, last.preEnemy)

C5_Witness ==
  /\ TickZero
  /\ last.preEnemy.isBoss
  /\ last.preEnemy.hp > 0
  /\ last.preEnemy.bossTimeLeft > 0
  /\ PreDps > 0
  /\ save.lastSeen # Pre.lastSeen
  /\ SameButLastSeen(save, Cur, Pre, last.preEnemy)

\* C6: killing the current enemy pays, advances and respawns alike in the
\* kill branch of tick, in onKill and in the kill branch of the manual attack
KillOutcome(s, h) == <<s.gold, s.lifetimeGold, s.floor, s.killsThisFloor, h[s.enemy]>>

C6_KillRulesAgree ==
  save.enemy # Null =>
    LET dead == [Cur EXCEPT !.hp = 0]
        h0 == [heap EXCEPT ![save.enemy] = dead]
        a == tickKill(save, h0, Pinned)
        b == onKill(OfflineLocals(save, h0, 0), dead, Pinned)
        c == clickKill(save, heap, Pinned, dead)
        reward == RegularReward(Cur.maxHp, save.floor) * (IF Cur.isBoss THEN 2 ELSE 1)
    IN /\ KillOutcome(a.s, a.h) = KillOutcome(b.s, b.h)
       /\ KillOutcome(a.s, a.h) = KillOutcome(c.s, c.h)
       /\ a.s.gold = save.gold + reward

C6_Witness ==
  /\ last.op = "click"
  /\ last.preEnemy.isBoss
  /\ save.floor = Pre.floor + 1
  /\ save.lifetimeGold > Pre.lifetimeGold

OfflineExample ==
  /\ last.op = "offline"
  /\ PreDps = 100
  /\ Pre.floor = 1
  /\ Pre.killsThisFloor = 0
  /\ last.preEnemy = makeEnemy(1, FALSE)
  /\ last.x = Sec(10)

C8_OfflineExample ==
  OfflineExample => (last.report.kills = 48 /\ last.report.floors = 2)

C8_Original ==
  OfflineExample => (last.report.kills > 1 /\ last.report.floors = 0)

C8_Witness == OfflineExample /\ save.floor = 3

\* C9: a tick that brings a regular enemy to 0 pays
\* maxHp * 0.05 * (1 + floor * 0.02) into gold and lifetimeGold, adds 1 to
\* killsThisFloor, keeps the floor and installs with hp = maxHp a regular
\* enemy of the floor, or its boss when the counter reaches killsPerFloor
TickKillsRegular ==
  /\ last.op = "tick"
  /\ Pre.enemy # Null
  /\ ~last.preEnemy.isBoss
  /\ PreDps > 0
  /\ last.preEnemy.hp - PreDps * last.x <= 0

TickKillPays ==
  /\ save.gold = Pre.gold + RegularReward(last.preEnemy.maxHp, Pre.floor)
  /\ save.lifetimeGold = Pre.lifetimeGold + RegularReward(last.preEnemy.maxHp, Pre.floor)
  /\ save.killsThisFloor = Pre.killsThisFloor + 1
  /\ save.floor = Pre.floor

TickExample ==
  (TickKillsRegular /\ Pre.floor = 1 /\ last.preEnemy = makeEnemy(1, FALSE)
     /\ PreDps = 5 /\ last.x = Sec(3) /\ Pre.killsThisFloor = 0)
    => /\ last.preEnemy.maxHp = Hp(10, 0)
       /\ save.gold = Pre.gold + Gold(0, 51000)
       /\ save.killsThisFloor = 1
       /\ Cur = makeEnemy(1, FALSE)

C9_TickKill ==
  /\ TickKillsRegular =>
       /\ TickKillPays
       /\ Cur = makeEnemy(Pre.floor, save.killsThisFloor = ENEMY.killsPerFloor)
  /\ TickExample

C9_Original ==
  /\ TickKillsRegular => (TickKillPays /\ Cur = makeEnemy(Pre.floor, FALSE))
  /\ TickExample

C9_Witness ==
  /\ TickKillsRegular
  /\ Pre.floor = 1
  /\ PreDps = 5
  /\ last.x = Sec(3)
  /\ Pre.killsThisFloor = 0
  /\ last.preEnemy = makeEnemy(1, FALSE)

\* C10: a purchase whose cost exceeds the gold of the state it is applied to
\* returns that state unchanged; the cost of hero levels is the one the
\* handler computed from the level it read
ClickCost == bulkCost(CLICK.baseCost, CLICK.growth, Pre.clickLevel - 1, last.x)

HeroCost ==
  bulkCost(HEROES[last.hero].baseCost, HEROES[last.hero].growth,
           last.view.heroes[last.hero], last.x)

C10_UnaffordableNoOp ==
  /\ (last.op = "buyClick" /\ Pre.gold < ClickCost)
       => (save = Pre /\ Cur = last.preEnemy)
  /\ (last.op = "buyHero" /\ Pre.gold < HeroCost)
       => (save = Pre /\ Cur = last.preEnemy)

C10_Witness ==
  /\ last.op = "buyHero"
  /\ Pre.gold > 0
  /\ Pre.gold < HeroCost
  /\ save = Pre

\* C11: gold is never negative; but for resetProgress, which sets both to
\* 0, lifetimeGold never decreases; gold and lifetimeGold rise only in a
\* call that resolves a kill, both by the reward; gold falls only in a
\* purchase that succeeds, and that leaves lifetimeGold alone
KillReward(e, floor) == RegularReward(e.maxHp, floor) * (IF e.isBoss THEN 2 ELSE 1)

GoldRises ==
  (save.gold > Pre.gold \/ save.lifetimeGold > Pre.lifetimeGold) =>
    /\ last.op \in {"tick", "click", "offline"}
    /\ save.gold - Pre.gold = save.lifetimeGold - Pre.lifetimeGold
    /\ last.op \in {"tick", "click"} =>
         /\ Pre.enemy # Null
         /\ save.gold - Pre.gold = KillReward(last.preEnemy, Pre.floor)
         /\ Cur.hp = Cur.maxHp
    /\ last.op = "offline" =>
         /\ last.report.kills > 0
         /\ save.gold - Pre.gold = last.report.gold

GoldFalls ==
  save.gold < Pre.gold =>
    /\ save.lifetimeGold = Pre.lifetimeGold
    /\ \/ /\ last.op = "buyClick"
          /\ save.clickLevel = Pre.clickLevel + last.x
          /\ Pre.gold - save.gold = ClickCost
       \/ /\ last.op = "buyHero"
          /\ save.heroes[last.hero] = Pre.heroes[last.hero] + last.x
          /\ Pre.gold - save.gold = HeroCost

C11_GoldFlow ==
  /\ save.gold >= 0
  /\ save.lifetimeGold >= 0
  /\ last.op # "reset" =>
       /\ save.lifetimeGold >= Pre.lifetimeGold
       /\ GoldRises
       /\ GoldFalls

C11_Original ==
  /\ save.gold >= 0
  /\ save.lifetimeGold >= Pre.lifetimeGold
  /\ GoldRises
  /\ GoldFalls

C11_Witness ==
  /\ last.op = "buyClick"
  /\ save.gold < Pre.gold
  /\ save.gold >= 0
  /\ save.lifetimeGold = Pre.lifetimeGold
  /\ Pre.lifetimeGold > Pre.gold

\* C12: after any purchases with any integer qty, clickLevel is at least 1
\* and every hero level at least 0
C12_LevelsInRange ==
  /\ save.clickLevel >= 1
  /\ \A i \in HeroIds : save.heroes[i] >= 0

\* C13: floor is at least 1; a tick or a manual attack changes it by +1
\* when it kills a boss and by -1, not below 1, when the boss times out; so
\* does each pass of the offline loop; purchases and the mount leave it
\* alone; resetProgress sets it to 1
FloorStep(pre, boss, s, kills) ==
  \/ s.floor = pre.floor
  \/ /\ s.floor = pre.floor + 1
     /\ boss
     /\ kills
     /\ s.killsThisFloor = 0
  \/ /\ s.floor = pre.floor - 1
     /\ pre.floor > 1
     /\ boss
     /\ ~kills
     /\ s.killsThisFloor = 0

FloorInCalls ==
  /\ last.op \in {"tick", "click"} =>
       /\ FloorStep(Pre, Pre.enemy # Null /\ last.preEnemy.isBoss, save,
                    save.lifetimeGold > Pre.lifetimeGold)
       /\ (Pre.enemy # Null /\ last.preEnemy.isBoss
             /\ save.lifetimeGold > Pre.lifetimeGold) => save.floor = Pre.floor + 1
  /\ last.op \in {"load", "mount", "buyClick", "buyHero"} => save.floor = Pre.floor
  /\ last.op = "offline" => save.floor <= Pre.floor + last.report.floors

FloorInOfflinePass ==
  \A T \in ElapsedSet :
    (save.enemy # Null /\ totalDps(save.heroes) > 0 /\ T > 0) =>
      LET b == OfflineBody(OfflineLocals(save, heap, T), totalDps(save.heroes), Pinned)
      IN /\ b.locals.s.floor >= 1
         /\ FloorStep(save, Cur.isBoss, b.locals.s, b.locals.kills > 0)
         /\ b.locals.floorsCleared = (IF b.locals.s.floor = save.floor + 1 THEN 1 ELSE 0)

C13_FloorChanges ==
  /\ save.floor >= 1
  /\ FloorInCalls
  /\ FloorInOfflinePass
  /\ last.op = "reset" => save.floor = 1

C13_Original ==
  /\ save.floor >= 1
  /\ FloorInCalls
  /\ FloorInOfflinePass
  /\ last.op = "reset" => save.floor = Pre.floor

C13_Witness ==
  /\ last.op = "offline"
  /\ last.preEnemy.isBoss
  /\ Pre.floor = 1
  /\ save.floor = 1
  /\ save.killsThisFloor < ENEMY.killsPerFloor
  /\ last.report.floors = 0
  /\ PreDps > 0

\* C14: bulkCost(base, growth, currentLevel, qty) is the sum of the prices
\* base * growth^(currentLevel + i) of the levels i in [0, qty), up to
\* rounding; it is that sum exactly for growth 1, and 0 for qty <= 0
Price(base, growth, level) == MulPow(base * GoldScale, growth.num, growth.den, level)

RECURSIVE NaiveCost(_, _, _, _)
NaiveCost(base, growth, currentLevel, qty) ==
  IF qty <= 0 THEN 0
  ELSE NaiveCost(base, growth, currentLevel, qty - 1)
         + Price(base, growth, currentLevel + qty - 1)

Abs(x) == IF x < 0 THEN -x ELSE x

\* a thousandth of a gold piece
CostTolerance == GoldScale \div 1000

BulkCostReturned == fn.name = "bulkCost" /\ fn.returned

C14_BulkCostIsSum ==
  BulkCostReturned =>
    LET naive == NaiveCost(fn.base, fn.growth, fn.currentLevel, fn.qty)
    IN /\ Abs(fn.result - naive) <= CostTolerance
       /\ fn.growth.num = fn.growth.den => fn.result = fn.base * GoldScale * Max(fn.qty, 0)
       /\ fn.qty <= 0 => fn.result = 0

C14_Witness ==
  /\ BulkCostReturned
  /\ fn.growth = CLICK.growth
  /\ fn.currentLevel > 0
  /\ fn.qty = 4
  /\ fn.result > 4 * fn.base * GoldScale

\* C15: makeEnemy(floor, boss) returns an enemy with hp = maxHp, maxHp =
\* baseHp * floorGrowth^(floor - 1), times 12 for a boss, bossTimeLeft = 30
\* for a boss and no bossTimeLeft otherwise
RECURSIVE RegularMaxHp(_)
RegularMaxHp(floor) ==
  IF floor <= 1 THEN 10 * HpScale ELSE (RegularMaxHp(floor - 1) * 16) \div 10

\* floor by floor the product with 1.6 is a whole number of hit-point units
RECURSIVE ExactMaxHp(_)
ExactMaxHp(floor) ==
  floor <= 1 \/ ((RegularMaxHp(floor - 1) * 16) % 10 = 0 /\ ExactMaxHp(floor - 1))

MakeEnemyReturned == fn.name = "makeEnemy" /\ fn.returned

C15_MakeEnemy ==
  MakeEnemyReturned =>
    /\ ExactMaxHp(fn.floor)
    /\ fn.result.hp = fn.result.maxHp
    /\ fn.result.isBoss = fn.boss
    /\ fn.result.maxHp = RegularMaxHp(fn.floor) * (IF fn.boss THEN 12 ELSE 1)
    /\ fn.result.bossTimeLeft = (IF fn.boss THEN 30 * TimeScale ELSE Undefined)
    /\ DOMAIN fn.result = {"maxHp", "hp", "isBoss", "bossTimeLeft"}

C15_Witness ==
  /\ MakeEnemyReturned
  /\ fn.floor = 3
  /\ fn.boss
  /\ fn.result.maxHp = Hp(307, 2000)
  /\ fn.result.bossTimeLeft = Sec(30)

\* C16: a buyHeroLevels that succeeds takes bulkCost(baseCost, growth, L, qty)
\* with L the hero's level in the state it is applied to, and raises that
\* hero's level by qty and no other
HeroBought == last.op = "buyHero" /\ save.heroes # Pre.heroes

C16_CostFromAppliedState ==
  HeroBought =>
    /\ Pre.gold - save.gold =
         bulkCost(HEROES[last.hero].baseCost, HEROES[last.hero].growth,
                  Pre.heroes[last.hero], last.x)
    /\ save.heroes = [Pre.heroes EXCEPT ![last.hero] = @ + last.x]

\* C17: simulateOffline with total DPS 0 or with seconds <= 0 reports no
\* kill, no gold and no floor and returns the state as it was but for
\* lastSeen, the enemy with its hp and bossTimeLeft included
NoProgress(report, seconds) ==
  report = [seconds |-> seconds, kills |-> 0, gold |-> 0, floors |-> 0]

NonPositiveSeconds == {0, -Sec(1)}

C17_OfflineIdle ==
  /\ (last.op = "offline" /\ PreDps = 0) =>
       /\ NoProgress(last.report, last.x)
       /\ SameButLastSeen(save, Cur, Pre, last.preEnemy)
       /\ last.argEnemy = last.preEnemy
  /\ \A seconds \in NonPositiveSeconds :
       save.enemy # Null =>
         LET res == simulateOffline(save, heap, seconds, 2, Pinned)
         IN /\ NoProgress(res.report, seconds)
            /\ SameButLastSeen(res.s, Deref(res.h, res.s.enemy), save, Cur)

C17_Witness ==
  /\ last.op = "offline"
  /\ PreDps = 0
  /\ last.preEnemy.isBoss
  /\ last.preEnemy.bossTimeLeft < last.x
  /\ Cur = last.preEnemy

\* C18: the loop of simulateOffline ends for every state with DPS > 0: a
\* pass leaves the loop or resolves a kill or an escape, there are no more
\* passes than `safety` allows, and when they are used up the call returns
\* what it has done so far
Escapes(L1, L2) ==
  /\ L1.h[L1.s.enemy].isBoss
  /\ L2.s.floor = Max(1, L1.s.floor - 1)
  /\ L2.s.killsThisFloor = 0
  /\ L2.kills = L1.kills
  /\ L2.timeLeft <= L1.timeLeft

PassProgress ==
  fn'.passes = fn.passes + 1 =>
    \/ fn'.done
    \/ fn'.L.kills > fn.L.kills /\ fn'.L.timeLeft < fn.L.timeLeft
    \/ Escapes(fn.L, fn'.L)

\* the passes still to make are those the loop makes from the locals reached
LoopFollowsBody ==
  ~fn.done =>
    /\ fn.todo = OfflinePasses(fn.L, fn.safety, fn.dps, {save.enemy})
    /\ LoopTest => (fn.todo # <<>>
                     /\ Head(fn.todo) = OfflineBody(fn.L, fn.dps, {save.enemy}))

LoopBounded ==
  /\ fn.passes <= fn.ceiling
  /\ fn.passes + fn.safety = fn.ceiling

LoopResult ==
  fn.done =>
    /\ fn.L = OfflineLoop(OfflineLocals(save, heap, fn.seconds), fn.ceiling, fn.dps,
                          {save.enemy})
    /\ fn.L.s.gold = save.gold + fn.L.goldEarned
    /\ fn.L.s.lifetimeGold = save.lifetimeGold + fn.L.goldEarned
    /\ fn.L.timeLeft > 0 => (fn.passes = fn.ceiling /\ fn.L.kills >= fn.passes)

C18_OfflineTerminates ==
  /\ <>(fn.done)
  /\ [](LoopFollowsBody /\ LoopBounded /\ LoopResult)
  /\ [][PassProgress]_vars

C18_Witness ==
  /\ fn.name = "simulateOffline"
  /\ fn.done
  /\ fn.passes = fn.ceiling
  /\ fn.L.timeLeft > 0
  /\ fn.L.kills > 20

\* the call tick(state, dt) just made killed the boss of the state
TickKilledBoss ==
  /\ last.op = "tick"
  /\ Pre.enemy # Null
  /\ last.preEnemy.isBoss
  /\ last.preEnemy.bossTimeLeft # Undefined
  /\ save.floor = Pre.floor + 1
  /\ save.lifetimeGold > Pre.lifetimeGold

\* C19: a call of tick kills a boss only if the boss's time-to-kill at the
\* start of the call, hp / dps, is at most its bossTimeLeft, whatever dt is
C19_TickBossKillInTime ==
  TickKilledBoss =>
    last.preEnemy.hp <= PreDps * last.preEnemy.bossTimeLeft

\* C20: while an encounter is active it is a boss exactly when killsThisFloor
\* = killsPerFloor, and a regular enemy exactly when killsThisFloor is below
\* killsPerFloor
C20_BossIffCounterAtCap ==
  save.enemy # Null =>
    /\ Cur.isBoss <=> save.killsThisFloor = ENEMY.killsPerFloor
    /\ ~Cur.isBoss <=> save.killsThisFloor < ENEMY.killsPerFloor

C20_Witness ==
  /\ last.op \in {"tick", "click", "offline", "reset"}
  /\ Pre.enemy # Null
  /\ last.preEnemy.isBoss # Cur.isBoss
  /\ save.enemy # Null
  /\ save.killsThisFloor # Pre.killsThisFloor

\* C21: the encounter of a state has a bossTimeLeft exactly when it is a
\* boss, and the bossTimeLeft of a boss is above 0 and at most bossTimeSeconds:
\* no operation leaves a boss whose timer has run out
C21_BossTimerLive ==
  save.enemy # Null =>
    /\ Cur.bossTimeLeft # Undefined <=> Cur.isBoss
    /\ Cur.isBoss =>
         (0 < Cur.bossTimeLeft /\ Cur.bossTimeLeft <= Sec(ENEMY.bossTimeSeconds))

C21_Witness ==
  /\ last.op \in {"tick", "offline"}
  /\ last.x > 0
  /\ Pre.enemy # Null
  /\ last.preEnemy.isBoss
  /\ save.floor = Pre.floor
  /\ Cur.isBoss
  /\ Cur.bossTimeLeft = last.preEnemy.bossTimeLeft - last.x

\* the time a pass of the loop has taken off timeLeft
TimeSpent == FSub(fn.before, fn.timeLeft)

\* C22: in simulateOffline the remaining time never becomes negative and
\* never exceeds the input: a pass takes off at most the timeLeft it found
C22_TimeLeftInRange ==
  fn.name = "offlineTime" =>
    /\ FLessEq(Zero, fn.timeLeft)
    /\ FLessEq(fn.timeLeft, fn.seconds)
    /\ FLessEq(TimeSpent, fn.before)

\* the kills a pass from the locals L1 to the locals L2 has resolved, read off
\* the state: a boss kill raises floor, a regular kill raises killsThisFloor
PassBossKills(L1, L2) ==
  IF L1.h[L1.s.enemy].isBoss /\ L2.s.floor = L1.s.floor + 1 THEN 1 ELSE 0

PassKills(L1, L2) ==
  IF L1.h[L1.s.enemy].isBoss THEN PassBossKills(L1, L2)
  ELSE L2.s.killsThisFloor - L1.s.killsThisFloor

PassCounted ==
  fn'.passes = fn.passes + 1 =>
    /\ fn'.L.kills - fn.L.kills = PassKills(fn.L, fn'.L)
    /\ fn'.L.floorsCleared - fn.L.floorsCleared = PassBossKills(fn.L, fn'.L)
    /\ fn'.L.goldEarned - fn.L.goldEarned = fn'.L.s.gold - fn.L.s.gold
    /\ fn'.L.goldEarned - fn.L.goldEarned = fn'.L.s.lifetimeGold - fn.L.s.lifetimeGold
    /\ fn'.L.goldEarned - fn.L.goldEarned
         = PassKills(fn.L, fn'.L) * goldRewardFor(fn.L.h[fn.L.s.enemy], fn.L.s.floor)

ReportOf(res) ==
  /\ res.report.seconds = fn.seconds
  /\ res.report.gold = res.s.gold - save.gold
  /\ res.report.gold = res.s.lifetimeGold - save.lifetimeGold
  /\ res.report.kills = fn.L.kills
  /\ res.report.floors = fn.L.floorsCleared
  /\ res.report.floors >= res.s.floor - save.floor
  /\ fn.ceiling = 200000 =>
       res = simulateOffline(save, heap, fn.seconds, 2, {save.enemy})

Reported ==
  /\ (fn.passes = 0 /\ ~fn.done) =>
       (fn.L.kills = 0 /\ fn.L.floorsCleared = 0 /\ fn.L.goldEarned = 0
          /\ fn.L.s = save)
  /\ fn.done => ReportOf(OfflineReturn(fn.L, fn.seconds, 2))

\* C23: the report of simulateOffline agrees with what the call did to the
\* state: gold is the rise of gold and of lifetimeGold, kills the number of
\* kills resolved, floors the number of bosses killed, escapes not deducted
C23_ReportMatchesState == []Reported /\ [][PassCounted]_vars

C23_Witness ==
  /\ fn.name = "simulateOffline"
  /\ fn.done
  /\ fn.L.floorsCleared >= 1
  /\ fn.L.s.floor = save.floor
  /\ fn.L.kills > fn.L.floorsCleared

\* the gold spent so far
Spent == save.lifetimeGold - save.gold

\* no operation but resetProgress lowers the gold spent
SpentKept == last'.op # "reset" => Spent' >= Spent

\* C24: gold <= lifetimeGold in every state reached from the default state or
\* from a reset by ticks, offline progress, attacks and purchases with qty >= 1
C24_GoldWithinLifetime == [](save.gold <= save.lifetimeGold) /\ [][SpentKept]_vars

C24_Witness ==
  /\ last.op \in {"tick", "click", "offline"}
  /\ Pre.gold = Pre.lifetimeGold
  /\ save.gold > Pre.gold
  /\ save.gold = save.lifetimeGold

====
